---------------------------- MODULE Spec2Model ----------------------------
(***************************************************************************)
(* Model of main.py: the Pub/Sub-triggered cloud function that reads a     *)
(* prompt sheet, generates and upscales images through the Midjourney      *)
(* API, downloads them, posts them as an Instagram album, archives them    *)
(* to a bucket and writes the sheet back.                                  *)
(*                                                                         *)
(* An invocation is a process p \in Inv; its local variables are the       *)
(* locals of generate_images_load_instagram and of the functions it calls. *)
(* The spreadsheet, the bucket and the local file system are shared.       *)
(***************************************************************************)
EXTENDS Integers, Sequences, FiniteSets, TLC

(***************************************************************************)
(* Bounds of the model.                                                    *)
(***************************************************************************)
NumInv == 2          \* invocations (Pub/Sub messages) that may be delivered
MaxRows == 2         \* data rows below the header in an initial sheet
MaxCols == 5         \* widest header or row of an initial sheet
MaxProcessing == 2   \* 'processing' answers the vendor gives one invocation
MaxMinute == 1       \* last minute of the wall clock
MaxTagsLen == 4      \* longest tags string given to load_instagram

(***************************************************************************)
(* Program constants.                                                      *)
(***************************************************************************)
NumFields == 4       \* row_id, prompt, description, tags = row
\* Variant of NumUpscales: the loop is range(1, 4).
NumUpscalesShort == 4 - 1

NumUpscales == 4     \* for idx in range(1, 5)
WriteSheetName == "Prompts"

Inv == 1..NumInv
SheetNames == {"Prompts", "Drafts"}
MinCols == NumFields - 1
ColRange == MinCols..MaxCols

(***************************************************************************)
(* Sheets.  A grid is a sequence of rows, the header first; a row is a     *)
(* sequence of cells.  The cell of sheet s at row r, column c is the token *)
(* <<s, r, c>>, so that every cell of every sheet is distinguishable.      *)
(***************************************************************************)
Cell(s, r, c) == <<s, r, c>>

MkRow(s, r, n) == [c \in 1..n |-> Cell(s, r, c)]

MkGrid(s, lens) == [r \in 1..Len(lens) |-> MkRow(s, r, lens[r])]

Grids(s) ==
    {<<>>} \cup
    { MkGrid(s, lens) :
        lens \in UNION { [1..n -> ColRange] : n \in 1..(MaxRows + 1) } }

\* The content of the sheet that is not the one configured for reading.
StandbyGrid(s) == MkGrid(s, <<NumFields, NumFields + 1, NumFields>>)

(***************************************************************************)
(* The wall clock: datetime.now() and its two strftime renderings.         *)
(***************************************************************************)
InstantAt(m) ==
    [year |-> 2024, month |-> 1, day |-> 1, hour |-> 0, minute |-> m]

Instants == { InstantAt(m) : m \in 0..MaxMinute }

\* now.strftime('%Y_%m_%d_%H_%M')
NowStr(t) == <<t.year, t.month, t.day, t.hour, t.minute>>

\* now.strftime('%Y/%m')
TodayStr(t) == <<t.year, t.month>>

NoInstant == [year |-> 0, month |-> 0, day |-> 0, hour |-> 0, minute |-> 0]

(***************************************************************************)
(* The vendor.  Task ids and image URLs are opaque tokens: the task the    *)
(* vendor creates for invocation p is <<p, 0>> for the imagine request and *)
(* <<p, i>> for the upscale request of index i.                            *)
(***************************************************************************)
NoTask == <<0, 0>>
NoUrl == <<0, 0, "none">>
NoCell == <<"", 0, 0>>

Url(t) == <<t[1], t[2], "image_url">>

VendorStatuses == {"success", "processing", "finished", "failed"}

\* A non-200 transport answer.
TransportError == [status_code |-> 500, status |-> "", task_id |-> NoTask,
                   image_url |-> NoUrl]

\* The answers the vendor may give to an imagine or upscale request that
\* would create task t.
SubmitResponses(t) ==
    { [status_code |-> 200, status |-> s,
       task_id |-> IF s = "success" THEN t ELSE NoTask,
       image_url |-> NoUrl] : s \in VendorStatuses }
    \cup {TransportError}

\* The answers the vendor may give to a fetch of task t; it answers
\* 'processing' only while `left` is positive.
FetchResponses(t, left) ==
    { [status_code |-> 200, status |-> s, task_id |-> t,
       image_url |-> IF s = "finished" THEN Url(t) ELSE NoUrl] :
        s \in IF left > 0 THEN VendorStatuses
                          ELSE VendorStatuses \ {"processing"} }
    \cup {TransportError}

VARIABLES
    sheets,              \* the spreadsheet: sheet name -> grid
    sheet_name,          \* os.environ['SHEET_NAME']
    pending,             \* Pub/Sub messages not yet delivered
    overlap,             \* whether deliveries may overlap in time
    processing_left,     \* 'processing' answers the vendor still gives p
    clock,               \* the wall clock at the datetime.now() of p
    files,               \* the local file system: set of <<path, content>>
    blobs,               \* the bucket: set of <<key, content>>
    pc,                  \* where invocation p stands
    failed_at,           \* the pc at which invocation p raised, or ""
    values,              \* the grid p holds in memory
    read_values,         \* the grid p read
    sheets_before,       \* the spreadsheet when p was triggered
    now,                 \* datetime.now() of p
    row,                 \* index in values of the row p's loop selected
    image_task_id,
    upscaling_task_ids,
    upscaled_image_urls,
    idx,                 \* the loop index of the loop p is in
    image_files,         \* the paths download_images returned
    vendor_log,          \* the vendor requests of p, with their answers
    http_gets,           \* the URLs p requested from download_images
    posts,               \* the albums p uploaded
    sessions,            \* "in" while p is logged in to Instagram
    uploads,             \* the bucket keys p uploaded
    written,             \* the write_sheet calls of p that succeeded
    description,         \* load_instagram: the description it is given
    tags,                \* load_instagram: the tags it is given
    default_tags,        \* load_instagram: the default tags it is given
    caption,             \* load_instagram: the caption it builds
    tag_idx,             \* load_instagram: the turn of the loop over the tags
    caption_pc           \* where the building of the caption stands

shared == <<sheets, sheet_name, pending, overlap, processing_left, clock,
            files, blobs>>
control == <<pc, failed_at>>
locals == <<values, read_values, sheets_before, now, row, image_task_id,
            upscaling_task_ids, upscaled_image_urls, idx, image_files>>
effects == <<vendor_log, http_gets, posts, sessions, uploads, written>>
captioning == <<description, tags, default_tags, caption, tag_idx, caption_pc>>
vars == <<shared, control, locals, effects, captioning>>

Terminal == {"Done", "Failed"}

TypeOK ==
    /\ sheet_name \in SheetNames
    /\ pending \subseteq Inv
    /\ overlap \in BOOLEAN
    /\ \A p \in Inv :
        /\ processing_left[p] \in 0..MaxProcessing
        /\ clock[p] \in Instants
        /\ idx[p] \in 0..NumUpscales
        /\ row[p] \in 0..Len(values[p])
        /\ Len(written[p]) <= 1

(***************************************************************************)
(* Initial states: the sheet configured for reading holds any grid of the  *)
(* bounded family, no message has been delivered.                          *)
(***************************************************************************)
InitLocals ==
    /\ pc = [p \in Inv |-> "Idle"]
    /\ failed_at = [p \in Inv |-> ""]
    /\ values = [p \in Inv |-> <<>>]
    /\ read_values = [p \in Inv |-> <<>>]
    /\ sheets_before = [p \in Inv |-> [s \in SheetNames |-> <<>>]]
    /\ now = [p \in Inv |-> NoInstant]
    /\ row = [p \in Inv |-> 0]
    /\ image_task_id = [p \in Inv |-> NoTask]
    /\ upscaling_task_ids = [p \in Inv |-> <<>>]
    /\ upscaled_image_urls = [p \in Inv |-> <<>>]
    /\ idx = [p \in Inv |-> 0]
    /\ image_files = [p \in Inv |-> <<>>]
    /\ vendor_log = [p \in Inv |-> <<>>]
    /\ http_gets = [p \in Inv |-> <<>>]
    /\ posts = [p \in Inv |-> <<>>]
    /\ sessions = [p \in Inv |-> "out"]
    /\ uploads = [p \in Inv |-> <<>>]
    /\ written = [p \in Inv |-> <<>>]
    /\ files = {}
    /\ blobs = {}

\* load_instagram is not being run on its own.
CaptionOff ==
    /\ description = <<>>
    /\ tags = <<>>
    /\ default_tags = <<>>
    /\ caption = <<>>
    /\ tag_idx = 0
    /\ caption_pc = "off"

InitSheets ==
    /\ sheet_name \in SheetNames
    /\ \E g \in Grids(sheet_name) :
        sheets = [s \in SheetNames |->
                    IF s = sheet_name THEN g ELSE StandbyGrid(s)]

\* One message is delivered; were there more, they would be delivered in
\* successive minutes.
Init ==
    /\ InitSheets
    /\ InitLocals
    /\ CaptionOff
    /\ pending = {1}
    /\ overlap = FALSE
    /\ processing_left = [p \in Inv |-> MaxProcessing]
    /\ clock = [p \in Inv |->
                  InstantAt(IF p - 1 < MaxMinute THEN p - 1 ELSE MaxMinute)]

(***************************************************************************)
(* Pure helpers of the code.                                               *)
(***************************************************************************)
Min(S) == CHOOSE x \in S : \A y \in S : x <= y

Max2(a, b) == IF a >= b THEN a ELSE b

\* Variant of Eligible: the test accepts the rows of the header's width.
EligibleSameWidth(r, header) == Len(r) = Len(header)

\* if len(row) != len(values[0])
Eligible(r, header) == Len(r) # Len(header)

\* Variant of FirstEligible: the loop has no break, the body's last run wins.
LastEligible(grid) ==
    LET S == { i \in 2..Len(grid) : Eligible(grid[i], grid[1]) }
    IN  IF S = {} THEN 0 ELSE CHOOSE x \in S : \A y \in S : y <= x

\* for row in values[1:]: if len(row) != len(values[0]): ... break
\* The index in the grid of the row the loop body runs for, 0 when the loop
\* ends without running it.
FirstEligible(grid) ==
    LET S == { i \in 2..Len(grid) : Eligible(grid[i], grid[1]) }
    IN  IF S = {} THEN 0 ELSE Min(S)

\* Variant of Destructures: row_id, prompt, description, tags, *rest = row
DestructuresAtLeast(r) == Len(r) >= NumFields

\* row_id, prompt, description, tags = row
Destructures(r) == Len(r) = NumFields

Prompt(p) == values[p][row[p]][2]

Description(p) == values[p][row[p]][3]

Tags(p) == values[p][row[p]][4]

\* send_prompt and upscale: the answer is a task id or an exception.
SubmitResult(resp) ==
    IF resp.status_code = 200
    THEN IF resp.status = "success" THEN "return" ELSE "raise"
    ELSE "raise"

\* Variant of PollResult: the first 200 answer ends the loop.
PollResultNoWait(resp) ==
    IF resp.status_code = 200
    THEN IF resp.status \in {"processing", "finished"} THEN "return"
         ELSE "raise"
    ELSE "raise"

\* Variant of PollResult: the loop goes on after an answer that is neither
\* 'finished' nor a 200.
PollResultRetry(resp) ==
    IF resp.status_code = 200
    THEN IF resp.status = "finished" THEN "return" ELSE "continue"
    ELSE "continue"

\* get_image: the answer keeps the loop going, ends it with the image URL,
\* or is an exception.
PollResult(resp) ==
    IF resp.status_code = 200
    THEN IF resp.status = "processing" THEN "continue"
         ELSE IF resp.status = "finished" THEN "return"
         ELSE "raise"
    ELSE "raise"

\* The body of the imagine request.
ImagineRequest(p) ==
    [endpoint |-> "imagine", prompt |-> Prompt(p), task_id |-> NoTask, index |-> 0]

\* The body of a fetch request.
FetchRequest(t) ==
    [endpoint |-> "fetch", prompt |-> NoCell, task_id |-> t, index |-> 0]

\* Variant of UpscaleRequest: the index is sent zero-based.
UpscaleRequestZeroBased(p) ==
    [endpoint |-> "upscale", prompt |-> NoCell, task_id |-> image_task_id[p],
     index |-> idx[p] - 1]

\* The body of the upscale request of the loop index idx.
UpscaleRequest(p) ==
    [endpoint |-> "upscale", prompt |-> NoCell, task_id |-> image_task_id[p],
     index |-> idx[p]]

Logged(req, resp) == [request |-> req, response |-> resp]

\* Variant of FilePath: the name leaves the index out, f'image_{now_str}.jpg'.
FilePathNoIndex(now_str, i) == <<now_str, 0>>

\* f'image_{now_str}_{idx}.jpg'
FilePath(now_str, i) == <<now_str, i>>

\* f'{today_str}/{image_file}'
BlobKey(today_str, image_file) == <<today_str, image_file>>

\* A store (file system, bucket) after `content` is written under `name`.
Stored(store, name, content) ==
    { e \in store : e[1] # name } \cup {<<name, content>>}

ContentOf(store, name) == (CHOOSE e \in store : e[1] = name)[2]

\* spreadsheets().values().update on A1:Z: the cells given replace the cells
\* in their places, every other cell of the sheet stays.
Overlay(old, new) ==
    [r \in 1..Max2(Len(old), Len(new)) |->
        IF r > Len(new) THEN old[r]
        ELSE IF r > Len(old) THEN new[r]
        ELSE [c \in 1..Max2(Len(old[r]), Len(new[r])) |->
                IF c <= Len(new[r]) THEN new[r][c] ELSE old[r][c]]]

(***************************************************************************)
(* Strings are sequences of one-character strings.                         *)
(***************************************************************************)
Space == " "
Newline == "\n"
Comma == ","
Hash == "#"

\* The characters str.strip() removes from both ends, among those modelled.
Whitespace == {Space, Newline}

\* The strings over the characters S of at most n characters.
Strings(S, n) == UNION { [1..k -> S] : k \in 0..n }

TagChars == {"x", "y", Space, Comma, Newline}
Descriptions == {<<>>, <<"A">>}
DefaultTags == {<<>>, <<Hash, "z">>}

\* s.split(sep), sep one character: never empty, '' gives [''].
RECURSIVE Split(_, _)
Split(s, sep) ==
    IF \A i \in 1..Len(s) : s[i] # sep THEN <<s>>
    ELSE LET i == Min({ j \in 1..Len(s) : s[j] = sep })
         IN  <<SubSeq(s, 1, i - 1)>> \o Split(SubSeq(s, i + 1, Len(s)), sep)

RECURSIVE LStrip(_)
LStrip(s) ==
    IF s # <<>> /\ Head(s) \in Whitespace THEN LStrip(Tail(s)) ELSE s

RECURSIVE RStrip(_)
RStrip(s) ==
    IF s # <<>> /\ s[Len(s)] \in Whitespace
    THEN RStrip(SubSeq(s, 1, Len(s) - 1))
    ELSE s

\* s.strip()
Strip(s) == RStrip(LStrip(s))

\* Variant of Remove: s.replace(old, '', 1).
RECURSIVE RemoveFirst(_, _)
RemoveFirst(s, old) ==
    IF s = <<>> THEN <<>>
    ELSE IF Head(s) = old THEN Tail(s)
    ELSE <<Head(s)>> \o RemoveFirst(Tail(s), old)

\* s.replace(old, ''), old one character.
RECURSIVE Remove(_, _)
Remove(s, old) ==
    IF s = <<>> THEN <<>>
    ELSE (IF Head(s) = old THEN <<>> ELSE <<Head(s)>>) \o Remove(Tail(s), old)

(***************************************************************************)
(* Control.  No function of main.py catches an exception: a raise ends the *)
(* invocation where it stands.                                             *)
(***************************************************************************)
Goto(p, label) ==
    /\ pc' = [pc EXCEPT ![p] = label]
    /\ UNCHANGED failed_at

\* Variant of Raise: the sheet write sits in a finally clause.
RaiseThenWrite(p) ==
    /\ pc' = [pc EXCEPT ![p] = "write_sheet"]
    /\ failed_at' = [failed_at EXCEPT ![p] = pc[p]]

Raise(p) ==
    /\ pc' = [pc EXCEPT ![p] = "Failed"]
    /\ failed_at' = [failed_at EXCEPT ![p] = pc[p]]

Quiet(p) == \A q \in Inv \ {p} : pc[q] \in Terminal \cup {"Idle"}

(***************************************************************************)
(* generate_images_load_instagram, step by step.                           *)
(***************************************************************************)
\* A Pub/Sub message is delivered and the function starts.
Trigger(p) ==
    /\ p \in pending
    /\ pc[p] = "Idle"
    /\ overlap \/ Quiet(p)
    /\ pending' = pending \ {p}
    /\ sheets_before' = [sheets_before EXCEPT ![p] = sheets]
    /\ Goto(p, "setup")
    /\ UNCHANGED <<sheets, sheet_name, overlap, processing_left, clock, files, blobs>>
    /\ UNCHANGED <<values, read_values, now, row, image_task_id,
                   upscaling_task_ids, upscaled_image_urls, idx, image_files>>
    /\ UNCHANGED effects
    /\ UNCHANGED captioning

\* The environment is read, the sheet manager and the bucket are obtained.
Setup(p) ==
    /\ pc[p] = "setup"
    /\ \/ Goto(p, "read_sheet")
       \/ Raise(p)
    /\ UNCHANGED <<shared, locals, effects>>
    /\ UNCHANGED captioning

\* values = sheet_manager.read_sheet(sheet_name); now = datetime.now()
ReadSheet(p) ==
    /\ pc[p] = "read_sheet"
    /\ \/ /\ values' = [values EXCEPT ![p] = sheets[sheet_name]]
          /\ read_values' = [read_values EXCEPT ![p] = sheets[sheet_name]]
          /\ now' = [now EXCEPT ![p] = clock[p]]
          /\ Goto(p, "scan")
       \/ /\ Raise(p)
          /\ UNCHANGED <<values, read_values, now>>
    /\ UNCHANGED <<sheets_before, row, image_task_id, upscaling_task_ids,
                   upscaled_image_urls, idx, image_files>>
    /\ UNCHANGED <<shared, effects>>
    /\ UNCHANGED captioning

\* Variant of ScanRows: a loop that does not advance past a row its test
\* rejects.
ScanRowsSpin(p) ==
    /\ pc[p] = "scan"
    /\ row' = [row EXCEPT ![p] = FirstEligible(values[p])]
    /\ Goto(p, IF FirstEligible(values[p]) = 0
               THEN (IF Len(values[p]) < 2 THEN "write_sheet" ELSE "scan")
               ELSE IF FirstEligible(values[p]) = 2 THEN "destructure"
               ELSE "scan")
    /\ UNCHANGED <<values, read_values, sheets_before, now, image_task_id,
                   upscaling_task_ids, upscaled_image_urls, idx, image_files>>
    /\ UNCHANGED <<shared, effects>>
    /\ UNCHANGED captioning

\* Variant of ScanRows: the function returns when its loop selected no row.
ScanRowsOrReturn(p) ==
    /\ pc[p] = "scan"
    /\ row' = [row EXCEPT ![p] = FirstEligible(values[p])]
    /\ Goto(p, IF FirstEligible(values[p]) = 0 THEN "Done" ELSE "destructure")
    /\ UNCHANGED <<values, read_values, sheets_before, now, image_task_id,
                   upscaling_task_ids, upscaled_image_urls, idx, image_files>>
    /\ UNCHANGED <<shared, effects>>
    /\ UNCHANGED captioning

\* The for loop runs up to the first row its test accepts.
ScanRows(p) ==
    /\ pc[p] = "scan"
    /\ row' = [row EXCEPT ![p] = FirstEligible(values[p])]
    /\ Goto(p, IF FirstEligible(values[p]) = 0 THEN "write_sheet"
                                                ELSE "destructure")
    /\ UNCHANGED <<values, read_values, sheets_before, now, image_task_id,
                   upscaling_task_ids, upscaled_image_urls, idx, image_files>>
    /\ UNCHANGED <<shared, effects>>
    /\ UNCHANGED captioning

\* Variant of Destructure: a row that cannot be destructured is passed over
\* and the function goes on to the sheet write.
DestructureOrSkip(p) ==
    /\ pc[p] = "destructure"
    /\ Goto(p, IF Destructures(values[p][row[p]]) THEN "send_prompt"
                                                  ELSE "write_sheet")
    /\ UNCHANGED <<shared, locals, effects>>
    /\ UNCHANGED captioning

\* row_id, prompt, description, tags = row
Destructure(p) ==
    /\ pc[p] = "destructure"
    /\ IF Destructures(values[p][row[p]]) THEN Goto(p, "send_prompt")
                                          ELSE Raise(p)
    /\ UNCHANGED <<shared, locals, effects>>
    /\ UNCHANGED captioning

\* image_task_id = client.send_prompt(prompt)
SendPrompt(p) ==
    /\ pc[p] = "send_prompt"
    /\ \E resp \in SubmitResponses(<<p, 0>>) :
        /\ vendor_log' = [vendor_log EXCEPT
                            ![p] = Append(@, Logged(ImagineRequest(p), resp))]
        /\ IF SubmitResult(resp) = "return"
           THEN /\ image_task_id' = [image_task_id EXCEPT ![p] = resp.task_id]
                /\ Goto(p, "get_image")
           ELSE /\ Raise(p)
                /\ UNCHANGED image_task_id
    /\ UNCHANGED <<values, read_values, sheets_before, now, row,
                   upscaling_task_ids, upscaled_image_urls, idx, image_files>>
    /\ UNCHANGED <<http_gets, posts, sessions, uploads, written>>
    /\ UNCHANGED shared
    /\ UNCHANGED captioning

\* What one fetch request of get_image leaves in the log and at the vendor.
Fetched(p, t, resp) ==
    /\ vendor_log' = [vendor_log EXCEPT
                        ![p] = Append(@, Logged(FetchRequest(t), resp))]
    /\ processing_left' =
         [processing_left EXCEPT
            ![p] = IF resp.status = "processing" THEN @ - 1 ELSE @]

\* image_url = client.get_image(image_task_id): one turn of its loop.
GetImage(p) ==
    /\ pc[p] = "get_image"
    /\ \E resp \in FetchResponses(image_task_id[p], processing_left[p]) :
        /\ Fetched(p, image_task_id[p], resp)
        /\ CASE PollResult(resp) = "continue" ->
                    /\ UNCHANGED <<control, idx>>
             [] PollResult(resp) = "return" ->
                    /\ idx' = [idx EXCEPT ![p] = 1]
                    /\ Goto(p, "upscale")
             [] OTHER ->
                    /\ Raise(p)
                    /\ UNCHANGED idx
    /\ UNCHANGED <<values, read_values, sheets_before, now, row, image_task_id,
                   upscaling_task_ids, upscaled_image_urls, image_files>>
    /\ UNCHANGED <<http_gets, posts, sessions, uploads, written>>
    /\ UNCHANGED <<sheets, sheet_name, pending, overlap, clock, files, blobs>>
    /\ UNCHANGED captioning

\* upscaling_task_id = client.upscale(image_task_id, idx), for idx = 1..4
Upscale(p) ==
    /\ pc[p] = "upscale"
    /\ \E resp \in SubmitResponses(<<p, idx[p]>>) :
        /\ vendor_log' = [vendor_log EXCEPT
                            ![p] = Append(@, Logged(UpscaleRequest(p), resp))]
        /\ IF SubmitResult(resp) = "return"
           THEN /\ upscaling_task_ids' =
                     [upscaling_task_ids EXCEPT ![p] = Append(@, resp.task_id)]
                /\ IF idx[p] < NumUpscales
                   THEN /\ idx' = [idx EXCEPT ![p] = @ + 1]
                        /\ UNCHANGED control
                   ELSE /\ idx' = [idx EXCEPT ![p] = 1]
                        /\ Goto(p, "get_upscaled")
           ELSE /\ Raise(p)
                /\ UNCHANGED <<upscaling_task_ids, idx>>
    /\ UNCHANGED <<values, read_values, sheets_before, now, row, image_task_id,
                   upscaled_image_urls, image_files>>
    /\ UNCHANGED <<http_gets, posts, sessions, uploads, written>>
    /\ UNCHANGED shared
    /\ UNCHANGED captioning

\* upscaled_image_url = client.get_image(upscaling_task_id), for each task
\* id of upscaling_task_ids: one turn of the loop of get_image.
GetUpscaled(p) ==
    /\ pc[p] = "get_upscaled"
    /\ \E resp \in FetchResponses(upscaling_task_ids[p][idx[p]],
                                  processing_left[p]) :
        /\ Fetched(p, upscaling_task_ids[p][idx[p]], resp)
        /\ CASE PollResult(resp) = "continue" ->
                    /\ UNCHANGED <<control, idx, upscaled_image_urls>>
             [] PollResult(resp) = "return" ->
                    /\ upscaled_image_urls' =
                         [upscaled_image_urls EXCEPT
                            ![p] = Append(@, resp.image_url)]
                    /\ IF idx[p] < Len(upscaling_task_ids[p])
                       THEN /\ idx' = [idx EXCEPT ![p] = @ + 1]
                            /\ UNCHANGED control
                       ELSE /\ idx' = [idx EXCEPT ![p] = 0]
                            /\ Goto(p, "download")
             [] OTHER ->
                    /\ Raise(p)
                    /\ UNCHANGED <<idx, upscaled_image_urls>>
    /\ UNCHANGED <<values, read_values, sheets_before, now, row, image_task_id,
                   upscaling_task_ids, image_files>>
    /\ UNCHANGED <<http_gets, posts, sessions, uploads, written>>
    /\ UNCHANGED <<sheets, sheet_name, pending, overlap, clock, files, blobs>>
    /\ UNCHANGED captioning

\* download_images: one turn of its loop over enumerate(image_urls).
Download(p) ==
    /\ pc[p] = "download"
    /\ http_gets' = [http_gets EXCEPT
                       ![p] = Append(@, upscaled_image_urls[p][idx[p] + 1])]
    /\ \/ /\ files' = Stored(files, FilePath(NowStr(now[p]), idx[p]),
                             upscaled_image_urls[p][idx[p] + 1])
          /\ image_files' = [image_files EXCEPT
                               ![p] = Append(@, FilePath(NowStr(now[p]), idx[p]))]
          /\ IF idx[p] + 1 < Len(upscaled_image_urls[p])
             THEN /\ idx' = [idx EXCEPT ![p] = @ + 1]
                  /\ UNCHANGED control
             ELSE /\ idx' = [idx EXCEPT ![p] = 0]
                  /\ Goto(p, "login")
       \/ /\ Raise(p)
          /\ UNCHANGED <<files, image_files, idx>>
    /\ UNCHANGED <<values, read_values, sheets_before, now, row, image_task_id,
                   upscaling_task_ids, upscaled_image_urls>>
    /\ UNCHANGED <<vendor_log, posts, sessions, uploads, written>>
    /\ UNCHANGED <<sheets, sheet_name, pending, overlap, processing_left, clock,
                   blobs>>
    /\ UNCHANGED captioning

\* load_instagram: cl.login(username, password)
Login(p) ==
    /\ pc[p] = "login"
    /\ \/ /\ sessions' = [sessions EXCEPT ![p] = "in"]
          /\ Goto(p, "album_upload")
       \/ /\ Raise(p)
          /\ UNCHANGED sessions
    /\ UNCHANGED <<vendor_log, http_gets, posts, uploads, written>>
    /\ UNCHANGED <<shared, locals>>
    /\ UNCHANGED captioning

\* The album of one post: the files, what they hold, and the two cells the
\* caption is built from.
Album(p) ==
    [image_files |-> image_files[p],
     contents |-> [i \in 1..Len(image_files[p]) |->
                     ContentOf(files, image_files[p][i])],
     description |-> Description(p),
     tags |-> Tags(p)]

\* load_instagram: cl.album_upload(image_files, caption=caption)
AlbumUpload(p) ==
    /\ pc[p] = "album_upload"
    /\ \/ /\ posts' = [posts EXCEPT ![p] = Append(@, Album(p))]
          /\ Goto(p, "logout")
       \/ /\ Raise(p)
          /\ UNCHANGED posts
    /\ UNCHANGED <<vendor_log, http_gets, sessions, uploads, written>>
    /\ UNCHANGED <<shared, locals>>
    /\ UNCHANGED captioning

\* load_instagram: cl.logout()
Logout(p) ==
    /\ pc[p] = "logout"
    /\ \/ /\ sessions' = [sessions EXCEPT ![p] = "out"]
          /\ Goto(p, "append")
       \/ /\ Raise(p)
          /\ UNCHANGED sessions
    /\ UNCHANGED <<vendor_log, http_gets, posts, uploads, written>>
    /\ UNCHANGED <<shared, locals>>
    /\ UNCHANGED captioning

\* Variant of AppendTimestamp: the sheet is written as soon as the row is
\* stamped, before the archive.
AppendAndCommit(p) ==
    /\ pc[p] = "append"
    /\ values' = [values EXCEPT ![p][row[p]] = Append(@, NowStr(now[p]))]
    /\ sheets' = [sheets EXCEPT ![WriteSheetName] = Overlay(@, values'[p])]
    /\ written' = [written EXCEPT
                     ![p] = Append(@, [sheet_name |-> WriteSheetName,
                                       values |-> values'[p]])]
    /\ idx' = [idx EXCEPT ![p] = 1]
    /\ Goto(p, "archive")
    /\ UNCHANGED <<read_values, sheets_before, now, row, image_task_id,
                   upscaling_task_ids, upscaled_image_urls, image_files>>
    /\ UNCHANGED <<sheet_name, pending, overlap, processing_left, clock, files,
                   blobs>>
    /\ UNCHANGED <<vendor_log, http_gets, posts, sessions, uploads>>
    /\ UNCHANGED captioning

\* Variant of AppendTimestamp: the break follows the append, the archive loop
\* is never run.
AppendAndBreak(p) ==
    /\ pc[p] = "append"
    /\ values' = [values EXCEPT ![p][row[p]] = Append(@, NowStr(now[p]))]
    /\ idx' = [idx EXCEPT ![p] = 0]
    /\ Goto(p, "write_sheet")
    /\ UNCHANGED <<read_values, sheets_before, now, row, image_task_id,
                   upscaling_task_ids, upscaled_image_urls, image_files>>
    /\ UNCHANGED <<shared, effects>>
    /\ UNCHANGED captioning

\* Variant of AppendTimestamp: row.insert(0, now_str).
InsertTimestamp(p) ==
    /\ pc[p] = "append"
    /\ values' = [values EXCEPT ![p][row[p]] = <<NowStr(now[p])>> \o @]
    /\ idx' = [idx EXCEPT ![p] = 1]
    /\ Goto(p, "archive")
    /\ UNCHANGED <<read_values, sheets_before, now, row, image_task_id,
                   upscaling_task_ids, upscaled_image_urls, image_files>>
    /\ UNCHANGED <<shared, effects>>
    /\ UNCHANGED captioning

\* row.append(now_str)
AppendTimestamp(p) ==
    /\ pc[p] = "append"
    /\ values' = [values EXCEPT ![p][row[p]] = Append(@, NowStr(now[p]))]
    /\ idx' = [idx EXCEPT ![p] = 1]
    /\ Goto(p, "archive")
    /\ UNCHANGED <<read_values, sheets_before, now, row, image_task_id,
                   upscaling_task_ids, upscaled_image_urls, image_files>>
    /\ UNCHANGED <<shared, effects>>
    /\ UNCHANGED captioning

\* blob.upload_from_filename(image_file), for each file of image_files
Archive(p) ==
    /\ pc[p] = "archive"
    /\ \/ /\ blobs' = Stored(blobs,
                             BlobKey(TodayStr(now[p]), image_files[p][idx[p]]),
                             ContentOf(files, image_files[p][idx[p]]))
          /\ uploads' = [uploads EXCEPT
                           ![p] = Append(@, BlobKey(TodayStr(now[p]),
                                                    image_files[p][idx[p]]))]
          /\ IF idx[p] < Len(image_files[p])
             THEN /\ idx' = [idx EXCEPT ![p] = @ + 1]
                  /\ UNCHANGED control
             ELSE /\ idx' = [idx EXCEPT ![p] = 0]
                  /\ Goto(p, "write_sheet")
       \/ /\ Raise(p)
          /\ UNCHANGED <<blobs, uploads, idx>>
    /\ UNCHANGED <<values, read_values, sheets_before, now, row, image_task_id,
                   upscaling_task_ids, upscaled_image_urls, image_files>>
    /\ UNCHANGED <<vendor_log, http_gets, posts, sessions, written>>
    /\ UNCHANGED <<sheets, sheet_name, pending, overlap, processing_left, clock,
                   files>>
    /\ UNCHANGED captioning

\* Variant of WriteSheet: sheet_manager.write_sheet(sheet_name, values).
WriteSheetConfigured(p) ==
    /\ pc[p] = "write_sheet"
    /\ \/ /\ sheets' = [sheets EXCEPT ![sheet_name] = Overlay(@, values[p])]
          /\ written' = [written EXCEPT
                           ![p] = Append(@, [sheet_name |-> sheet_name,
                                             values |-> values[p]])]
          /\ Goto(p, "Done")
       \/ /\ Raise(p)
          /\ UNCHANGED <<sheets, written>>
    /\ UNCHANGED <<vendor_log, http_gets, posts, sessions, uploads>>
    /\ UNCHANGED <<sheet_name, pending, overlap, processing_left, clock, files,
                   blobs>>
    /\ UNCHANGED locals
    /\ UNCHANGED captioning

\* Variant of WriteSheet: the write is refused when the sheet is no longer
\* the grid that was read.
WriteSheetIfUnchanged(p) ==
    /\ pc[p] = "write_sheet"
    /\ \/ /\ sheets[WriteSheetName] = read_values[p]
          /\ sheets' = [sheets EXCEPT
                          ![WriteSheetName] = Overlay(@, values[p])]
          /\ written' = [written EXCEPT
                           ![p] = Append(@, [sheet_name |-> WriteSheetName,
                                             values |-> values[p]])]
          /\ Goto(p, "Done")
       \/ /\ Raise(p)
          /\ UNCHANGED <<sheets, written>>
    /\ UNCHANGED <<vendor_log, http_gets, posts, sessions, uploads>>
    /\ UNCHANGED <<sheet_name, pending, overlap, processing_left, clock, files,
                   blobs>>
    /\ UNCHANGED locals
    /\ UNCHANGED captioning

\* sheet_manager.write_sheet('Prompts', values), then the duration is printed
\* and the function returns.
WriteSheet(p) ==
    /\ pc[p] = "write_sheet"
    /\ \/ /\ sheets' = [sheets EXCEPT
                          ![WriteSheetName] = Overlay(@, values[p])]
          /\ written' = [written EXCEPT
                           ![p] = Append(@, [sheet_name |-> WriteSheetName,
                                             values |-> values[p]])]
          /\ Goto(p, "Done")
       \/ /\ Raise(p)
          /\ UNCHANGED <<sheets, written>>
    /\ UNCHANGED <<vendor_log, http_gets, posts, sessions, uploads>>
    /\ UNCHANGED <<sheet_name, pending, overlap, processing_left, clock, files,
                   blobs>>
    /\ UNCHANGED locals
    /\ UNCHANGED captioning

Step(p) ==
    \/ Trigger(p)
    \/ Setup(p)
    \/ ReadSheet(p)
    \/ ScanRows(p)
    \/ Destructure(p)
    \/ SendPrompt(p)
    \/ GetImage(p)
    \/ Upscale(p)
    \/ GetUpscaled(p)
    \/ Download(p)
    \/ Login(p)
    \/ AlbumUpload(p)
    \/ Logout(p)
    \/ AppendTimestamp(p)
    \/ Archive(p)
    \/ WriteSheet(p)

Next == \E p \in Inv : Step(p)

Spec == Init /\ [][Next]_vars

\* One message is delivered, the sheet read holds at most one data row.
FairInit ==
    /\ Init
    /\ Len(sheets[sheet_name]) <= 2

\* The function is single-threaded and every call it makes blocks until it
\* returns or raises: a started invocation keeps taking steps.
FairSpec == FairInit /\ [][Next]_vars /\ \A p \in Inv : WF_vars(Step(p))

(***************************************************************************)
(* load_instagram run on its own, up to the caption it hands to            *)
(* album_upload.                                                           *)
(***************************************************************************)
\* caption = description
CaptionStart ==
    /\ caption_pc = "start"
    /\ caption' = description
    /\ tag_idx' = 1
    /\ caption_pc' = "tags"
    /\ UNCHANGED <<description, tags, default_tags>>
    /\ UNCHANGED <<shared, control, locals, effects>>

\* for tag in tags.split(','): caption += ' #' + tag.strip().replace(' ', '')
\* One turn of the loop.
CaptionTag ==
    /\ caption_pc = "tags"
    /\ caption' = caption \o <<Space, Hash>>
                          \o Remove(Strip(Split(tags, Comma)[tag_idx]), Space)
    /\ IF tag_idx < Len(Split(tags, Comma))
       THEN /\ tag_idx' = tag_idx + 1
            /\ UNCHANGED caption_pc
       ELSE /\ tag_idx' = 0
            /\ caption_pc' = "default_tags"
    /\ UNCHANGED <<description, tags, default_tags>>
    /\ UNCHANGED <<shared, control, locals, effects>>

\* caption += default_tags
CaptionSuffix ==
    /\ caption_pc = "default_tags"
    /\ caption' = caption \o default_tags
    /\ caption_pc' = "built"
    /\ UNCHANGED <<description, tags, default_tags, tag_idx>>
    /\ UNCHANGED <<shared, control, locals, effects>>

CaptionNext ==
    \/ CaptionStart
    \/ CaptionTag
    \/ CaptionSuffix

\* load_instagram is called with any description, tags and default tags of
\* the bounded sets; no message is delivered.
CaptionInit ==
    /\ sheet_name = WriteSheetName
    /\ sheets = [s \in SheetNames |-> StandbyGrid(s)]
    /\ InitLocals
    /\ pending = {}
    /\ overlap = FALSE
    /\ processing_left = [p \in Inv |-> 0]
    /\ clock = [p \in Inv |-> InstantAt(0)]
    /\ description \in Descriptions
    /\ tags \in Strings(TagChars, MaxTagsLen)
    /\ default_tags \in DefaultTags
    /\ caption = <<>>
    /\ tag_idx = 0
    /\ caption_pc = "start"

CaptionSpec == CaptionInit /\ [][CaptionNext]_vars

(***************************************************************************)
(* Several messages.  The sheet read is the sheet written; the vendor      *)
(* answers no fetch with 'processing'.                                     *)
(***************************************************************************)
\* The grids with a header of five cells, the last one titling the timestamp
\* column, and rows of four or five cells.
SharedGrids ==
    { MkGrid(WriteSheetName, <<NumFields + 1>> \o lens) :
        lens \in UNION { [1..n -> {NumFields, NumFields + 1}] : n \in 0..MaxRows } }

\* Two messages are delivered, the second possibly while the invocation of
\* the first is still running.
ConcurrentInit ==
    /\ sheet_name = WriteSheetName
    /\ \E g \in SharedGrids :
        sheets = [s \in SheetNames |->
                    IF s = sheet_name THEN g ELSE StandbyGrid(s)]
    /\ InitLocals
    /\ CaptionOff
    /\ pending = {1, 2}
    /\ overlap = TRUE
    /\ processing_left = [p \in Inv |-> 0]
    /\ clock = [p \in Inv |->
                  InstantAt(IF p - 1 < MaxMinute THEN p - 1 ELSE MaxMinute)]

ConcurrentSpec == ConcurrentInit /\ [][Next]_vars

\* Two messages are delivered, the second after the invocation of the first
\* has ended; the sheet holds any grid of the bounded family.
SuccessiveInit ==
    /\ sheet_name = WriteSheetName
    /\ \E g \in Grids(sheet_name) :
        sheets = [s \in SheetNames |->
                    IF s = sheet_name THEN g ELSE StandbyGrid(s)]
    /\ InitLocals
    /\ CaptionOff
    /\ pending = {1, 2}
    /\ overlap = FALSE
    /\ processing_left = [p \in Inv |-> 0]
    /\ clock = [p \in Inv |->
                  InstantAt(IF p - 1 < MaxMinute THEN p - 1 ELSE MaxMinute)]

SuccessiveSpec == SuccessiveInit /\ [][Next]_vars

(***************************************************************************)
(* Observations used by the properties.                                    *)
(***************************************************************************)
GenerationSites == {"send_prompt", "get_image", "upscale", "get_upscaled"}
PostingSites == {"login", "album_upload", "logout"}

\* The places after row selection at which a collaborator call can raise.
SitesAfterSelection ==
    GenerationSites \cup {"download"} \cup PostingSites \cup {"archive"}

\* The invocation has run its row loop up to the selection.
Scanned(p) == pc[p] \notin {"Idle", "setup", "read_sheet", "scan"}
              /\ failed_at[p] \notin {"setup", "read_sheet"}

\* The rows of the grid p holds that differ from the grid p read.
MutatedRows(p) ==
    { i \in 1..Len(values[p]) : values[p][i] # read_values[p][i] }

\* C1: if the imagine request fails, the invocation makes no image download,
\* no social post, no archive upload and no sheet write, ever.
C1_SubmitFailureStopsAll ==
    \A p \in Inv :
        failed_at[p] = "send_prompt" =>
            /\ pc[p] = "Failed"
            /\ http_gets[p] = <<>>
            /\ image_files[p] = <<>>
            /\ posts[p] = <<>>
            /\ uploads[p] = <<>>
            /\ written[p] = <<>>
            /\ sheets = sheets_before[p]

C1_Witness ==
    \E p \in Inv :
        /\ failed_at[p] = "send_prompt"
        /\ Len(vendor_log[p]) = 1
        /\ vendor_log[p][1].response.status = "failed"

\* C2: a raise in generation, polling, upscaling, download, posting or
\* archiving ends the invocation in Failed with no sheet write: the stored
\* spreadsheet is what it was before the invocation.
C2_FailureWritesNothing ==
    \A p \in Inv :
        failed_at[p] \in SitesAfterSelection =>
            /\ pc[p] = "Failed"
            /\ written[p] = <<>>
            /\ sheets = sheets_before[p]

\* The archive raises after the timestamp was appended to the row in memory.
C2_Witness ==
    \E p \in Inv :
        /\ failed_at[p] = "archive"
        /\ MutatedRows(p) # {}
        /\ Len(uploads[p]) = NumUpscales - 1

\* C3: an invocation mutates at most one row, and the row it mutates is the
\* first row after the header whose cell count the loop's test accepts; no
\* later row is touched, in memory or in the grid written.
C3_OnlyFirstEligibleRowMutated ==
    \A p \in Inv :
        /\ Len(values[p]) = Len(read_values[p])
        /\ Cardinality(MutatedRows(p)) <= 1
        /\ \A i \in MutatedRows(p) :
            /\ i >= 2
            /\ Len(read_values[p][i]) # Len(read_values[p][1])
            /\ \A j \in 2..(i - 1) :
                Len(read_values[p][j]) = Len(read_values[p][1])
        /\ \A k \in 1..Len(written[p]) : written[p][k].values = values[p]

\* A row is mutated and written while a later row that also passes the test
\* is left as read.
C3_Witness ==
    \E p \in Inv :
        /\ pc[p] = "Done"
        /\ MutatedRows(p) = {2}
        /\ Len(values[p]) = 3
        /\ Len(read_values[p][3]) # Len(read_values[p][1])
        /\ values[p][3] = read_values[p][3]

\* The first row after the header with exactly as many cells as the header,
\* 0 when there is none.
FirstOfHeaderWidth(grid) ==
    LET S == { i \in 2..Len(grid) : Len(grid[i]) = Len(grid[1]) }
    IN  IF S = {} THEN 0 ELSE Min(S)

\* C4 as stated: the row selected is the first row with exactly as many
\* cells as the header; a row with one additional trailing cell is skipped.
C4_Original ==
    \A p \in Inv :
        Scanned(p) => row[p] = FirstOfHeaderWidth(read_values[p])

\* C4 amended: the row selected is the first row after the header whose
\* cell count differs from the header's; a row with exactly as many cells as
\* the header is skipped, whatever it holds, and a row with one additional
\* trailing cell is selected.
C4_SelectsFirstRowOfOtherWidth ==
    \A p \in Inv :
        Scanned(p) =>
            /\ row[p] \in {0} \cup 2..Len(read_values[p])
            /\ \A j \in 2..(IF row[p] = 0 THEN Len(read_values[p])
                                          ELSE row[p] - 1) :
                Len(read_values[p][j]) = Len(read_values[p][1])
            /\ row[p] # 0 =>
                Len(read_values[p][row[p]]) # Len(read_values[p][1])

\* A row of the header's width is skipped and the row after it, one cell
\* wider than the header, is selected.
C4_Witness ==
    \E p \in Inv :
        /\ Scanned(p)
        /\ row[p] = 3
        /\ Len(read_values[p][2]) = Len(read_values[p][1])
        /\ Len(read_values[p][3]) = Len(read_values[p][1]) + 1

\* The grid p read is a header and one data row that the loop's test
\* accepts.
OneEligibleRow(p) ==
    /\ Scanned(p)
    /\ Len(read_values[p]) = 2
    /\ Len(read_values[p][2]) # Len(read_values[p][1])

\* What a full run leaves: 4 files, one album of 4 images, 4 archive
\* objects, and a written grid whose data row gained one trailing cell.
FullRunEffects(p) ==
    /\ Len(image_files[p]) = 4
    /\ Cardinality({ image_files[p][i] : i \in 1..4 }) = 4
    /\ \A i \in 1..4 : \E f \in files : f[1] = image_files[p][i]
    /\ Len(posts[p]) = 1
    /\ Len(posts[p][1].image_files) = 4
    /\ Len(uploads[p]) = 4
    /\ Cardinality({ uploads[p][i] : i \in 1..4 }) = 4
    /\ Len(written[p]) = 1
    /\ Len(written[p][1].values) = 2
    /\ Len(written[p][1].values[2]) = Len(read_values[p][2]) + 1

\* The invocation ends in Done with the effects of a full run unless a
\* collaborator call raised.
FullRunUnlessCallRaised(p) ==
    /\ pc[p] = "Failed" => failed_at[p] \in SitesAfterSelection \cup {"write_sheet"}
    /\ pc[p] = "Done" => FullRunEffects(p)

\* C5 as stated: with a header and one eligible data row, an invocation in
\* which every collaborator call succeeds reaches Done with 4 files, one
\* post of 4 images, 4 archive objects and one more cell in the data row.
C5_Original ==
    \A p \in Inv : OneEligibleRow(p) => FullRunUnlessCallRaised(p)

\* C5 amended: the same, for an eligible data row of exactly 4 cells (the
\* header then has another cell count); an eligible row of another cell
\* count raises at the destructuring with every collaborator call succeeded.
C5_FullRunOfFourCellRow ==
    \A p \in Inv :
        /\ (OneEligibleRow(p) /\ Len(read_values[p][2]) = 4)
              => FullRunUnlessCallRaised(p)
        /\ (OneEligibleRow(p) /\ Len(read_values[p][2]) # 4)
              => pc[p] \in {"destructure", "Failed"}
                 /\ failed_at[p] \in {"", "destructure"}
                 /\ vendor_log[p] = <<>>

C5_Witness ==
    \E p \in Inv :
        /\ OneEligibleRow(p)
        /\ Len(read_values[p][2]) = 4
        /\ pc[p] = "Done"
        /\ FullRunEffects(p)

\* The stage of the orchestrator's state machine the invocation stands in.
Stage(p) ==
    CASE pc[p] = "Idle" -> "NotTriggered"
      [] pc[p] \in {"setup", "read_sheet", "scan"} -> "Idle"
      [] pc[p] = "destructure" -> "RowSelected"
      [] pc[p] \in GenerationSites -> "Generating"
      [] pc[p] = "download" -> "Downloading"
      [] pc[p] \in PostingSites -> "Posting"
      [] pc[p] \in {"append", "archive"} -> "Archiving"
      [] pc[p] = "write_sheet" -> "Persisting"
      [] OTHER -> pc[p]

DownloadsDone(p) == Len(image_files[p]) = NumUpscales

PostDone(p) == Len(posts[p]) = 1 /\ sessions[p] = "out"

ArchiveDone(p) == Len(uploads[p]) = NumUpscales

\* Each stage's effects come after the effects of the stages before it.
StagesInOrder(p) ==
    /\ Stage(p) \in {"NotTriggered", "Idle", "RowSelected"} =>
            vendor_log[p] = <<>>
    /\ Stage(p) \in {"NotTriggered", "Idle", "RowSelected", "Generating"} =>
            http_gets[p] = <<>>
    /\ Stage(p) = "Downloading" => Len(upscaled_image_urls[p]) = NumUpscales
    /\ Stage(p) = "Posting" => DownloadsDone(p)
    /\ Stage(p) = "Archiving" => DownloadsDone(p) /\ PostDone(p)
    /\ Stage(p) = "Done" => Len(written[p]) = 1
    /\ Stage(p) \notin {"Posting", "Archiving", "Persisting", "Done", "Failed"}
            => posts[p] = <<>> /\ sessions[p] = "out"
    /\ Stage(p) \notin {"Archiving", "Persisting", "Done", "Failed"}
            => uploads[p] = <<>>
    /\ Stage(p) \notin {"Done"} => written[p] = <<>>
    /\ http_gets[p] # <<>> => Len(upscaled_image_urls[p]) = NumUpscales
    /\ posts[p] # <<>> => DownloadsDone(p)
    /\ uploads[p] # <<>> => DownloadsDone(p) /\ PostDone(p)

\* A step of p that raises.
Raises(p) == Step(p) /\ pc'[p] = "Failed"

\* The places at which p calls a collaborator.
CallSites == {"setup", "read_sheet", "write_sheet"} \cup SitesAfterSelection

\* Failed can be the next stage wherever a collaborator is called, and at
\* the destructuring of a row that has not 4 cells.
FailedReachable(p) ==
    /\ pc[p] \in CallSites => ENABLED Raises(p)
    /\ pc[p] = "destructure" =>
            (ENABLED Raises(p) <=> Len(values[p][row[p]]) # 4)
    /\ pc[p] \in Terminal \cup {"scan", "append"} => ~ENABLED Raises(p)

\* C6 as stated: the stages occur only in the order Generating, Downloading,
\* Posting, Archiving, Persisting, Done; the post comes after the four
\* downloads, every archive upload after the post, and the sheet write only
\* after all four archive uploads; Failed is reachable from every stage.
C6_Original ==
    \A p \in Inv :
        /\ StagesInOrder(p)
        /\ Stage(p) = "Persisting" => ArchiveDone(p)
        /\ written[p] # <<>> => ArchiveDone(p)
        /\ FailedReachable(p)

\* C6 amended: as stated, except that the sheet write comes after the four
\* archive uploads only in an invocation that selected a row; an invocation
\* whose loop selects no row goes from the scan straight to Persisting and
\* writes the sheet with no vendor request, download, post or upload made.
C6_StagesInOrder ==
    \A p \in Inv :
        /\ StagesInOrder(p)
        /\ (Stage(p) = "Persisting" \/ written[p] # <<>>) =>
                IF row[p] # 0
                THEN ArchiveDone(p) /\ PostDone(p) /\ DownloadsDone(p)
                ELSE /\ vendor_log[p] = <<>>
                     /\ http_gets[p] = <<>>
                     /\ posts[p] = <<>>
                     /\ uploads[p] = <<>>
        /\ FailedReachable(p)

C6_Witness ==
    \E p \in Inv :
        /\ pc[p] = "Done"
        /\ row[p] # 0
        /\ ArchiveDone(p)
        /\ PostDone(p)
        /\ DownloadsDone(p)
        /\ Len(written[p]) = 1

\* Positions of the vendor log of p, by endpoint.
Requests(p, endpoint) ==
    { i \in 1..Len(vendor_log[p]) : vendor_log[p][i].request.endpoint = endpoint }

\* The fetch requests of task t in the log of p.
Polls(p, t) ==
    { i \in Requests(p, "fetch") : vendor_log[p][i].request.task_id = t }

\* Those answered 'processing', and those answered 'finished'.
PollsProcessing(p, t) ==
    { i \in Polls(p, t) : /\ vendor_log[p][i].response.status_code = 200
                          /\ vendor_log[p][i].response.status = "processing" }

PollsFinished(p, t) ==
    { i \in Polls(p, t) : /\ vendor_log[p][i].response.status_code = 200
                          /\ vendor_log[p][i].response.status = "finished" }

\* The task id the vendor returned to the request at position i.
TaskReturned(p, i) == vendor_log[p][i].response.task_id

IsUpscale(e) == e.request.endpoint = "upscale"

\* The task id the vendor returned to the k-th upscale request of p.
UpscaleTask(p, k) == SelectSeq(vendor_log[p], IsUpscale)[k].response.task_id

Succeeded(e) == e.response.status_code = 200 /\ e.response.status = "success"

IsPoll(e, t) == e.request.endpoint = "fetch" /\ e.request.task_id = t

IsPollAnswered(e, t, status) ==
    /\ IsPoll(e, t)
    /\ e.response.status_code = 200
    /\ e.response.status = status

IsUpscaleOf(e, t, k) ==
    /\ e.request.endpoint = "upscale"
    /\ e.request.task_id = t
    /\ e.request.index = k

\* Request b may come right after request a in a log whose first request
\* was answered with task id base and whose upscale requests were answered
\* with the task ids ups.
MayFollow(base, ups, a, b) ==
    \/ a.request.endpoint = "imagine" /\ Succeeded(a) /\ IsPoll(b, base)
    \/ IsPollAnswered(a, base, "processing") /\ IsPoll(b, base)
    \/ IsPollAnswered(a, base, "finished") /\ IsUpscaleOf(b, base, 1)
    \/ \E k \in 1..3 :
        IsUpscaleOf(a, base, k) /\ Succeeded(a) /\ IsUpscaleOf(b, base, k + 1)
    \/ /\ IsUpscaleOf(a, base, 4) /\ Succeeded(a)
       /\ Len(ups) = 4
       /\ IsPoll(b, ups[1])
    \/ \E k \in 1..Len(ups) :
        /\ Len(ups) = 4
        /\ IsPollAnswered(a, ups[k], "processing")
        /\ IsPoll(b, ups[k])
    \/ \E k \in 1..(Len(ups) - 1) :
        /\ Len(ups) = 4
        /\ IsPollAnswered(a, ups[k], "finished")
        /\ IsPoll(b, ups[k + 1])

\* C7: one submit; then the polls of the base task until it is finished;
\* then four upscale requests of indices 1, 2, 3, 4 in that order, all of the
\* base task; then the polls of the four upscale tasks, one task at a time in
\* submission order, each until it is finished; then the downloads.
C7_VendorCallOrder ==
    \A p \in Inv :
        LET log == vendor_log[p]
            upscales == SelectSeq(log, IsUpscale)
            ups == [k \in 1..Len(upscales) |-> upscales[k].response.task_id]
        IN  /\ log # <<>> => log[1].request = ImagineRequest(p)
            /\ \A i \in 1..(Len(log) - 1) :
                MayFollow(log[1].response.task_id, ups, log[i], log[i + 1])
            /\ Stage(p) = "Generating" => http_gets[p] = <<>>
            /\ http_gets[p] # <<>> =>
                /\ Len(ups) = 4
                /\ IsPollAnswered(log[Len(log)], ups[4], "finished")

\* The downloads have begun after every task was polled, the base task and
\* the second upscale task having answered 'processing' first.
C7_Witness ==
    \E p \in Inv :
        /\ http_gets[p] # <<>>
        /\ PollsProcessing(p, TaskReturned(p, 1)) # {}
        /\ PollsProcessing(p, UpscaleTask(p, 2)) # {}

\* The tasks p has polled.
PolledTasks(p) ==
    { vendor_log[p][i].request.task_id : i \in Requests(p, "fetch") }

\* The get_image call of p on task t has returned.
GetImageReturned(p, t) ==
    \/ t = image_task_id[p] /\ Stage(p) \notin {"Idle", "RowSelected"}
                            /\ pc[p] # "get_image"
                            /\ failed_at[p] \notin {"send_prompt", "get_image"}
    \/ \E k \in 1..Len(upscaled_image_urls[p]) : t = upscaling_task_ids[p][k]

\* Task t has so far been polled as a returned get_image call polls it, if
\* `returned`, and as a call still in its loop otherwise: one 'finished'
\* answer, the last, after nothing but 'processing' answers.
PolledAs(p, t, returned) ==
    LET polls == Polls(p, t)
        processing == { i \in polls :
                          /\ vendor_log[p][i].response.status_code = 200
                          /\ vendor_log[p][i].response.status = "processing" }
        finished == { i \in polls :
                        /\ vendor_log[p][i].response.status_code = 200
                        /\ vendor_log[p][i].response.status = "finished" }
    IN  IF returned
        THEN /\ Cardinality(finished) = 1
             /\ Cardinality(polls) = Cardinality(processing) + 1
             /\ \A i \in polls : \A j \in finished : i <= j
        ELSE /\ finished = {}
             /\ pc[p] # "Failed" => polls = processing

\* C8: a task answered 'processing' k times and then 'finished' is polled
\* exactly k + 1 times, and get_image returns the image URL of the
\* 'finished' answer; k has no maximum but the vendor's.
C8_PollsUntilFinished ==
    \A p \in Inv :
        /\ \A t \in PolledTasks(p) : PolledAs(p, t, GetImageReturned(p, t))
        /\ \A k \in 1..Len(upscaled_image_urls[p]) :
            /\ upscaled_image_urls[p][k] = Url(upscaling_task_ids[p][k])
            /\ \E i \in Polls(p, upscaling_task_ids[p][k]) :
                /\ vendor_log[p][i].response.status = "finished"
                /\ upscaled_image_urls[p][k] = vendor_log[p][i].response.image_url

\* k = 2: a task was answered 'processing' twice, then 'finished', in
\* exactly 3 polls, and its URL was returned.
C8_Witness ==
    \E p \in Inv : \E k \in 1..Len(upscaled_image_urls[p]) :
        /\ Cardinality(PollsProcessing(p, upscaling_task_ids[p][k])) = 2
        /\ Cardinality(Polls(p, upscaling_task_ids[p][k])) = 3
        /\ upscaled_image_urls[p][k] = Url(upscaling_task_ids[p][k])

\* The answer makes the call it answers raise.
FailingAnswer(e) ==
    \/ e.response.status_code # 200
    \/ /\ e.request.endpoint \in {"imagine", "upscale"}
       /\ e.response.status # "success"
    \/ /\ e.request.endpoint = "fetch"
       /\ e.response.status \notin {"processing", "finished"}

\* The place of the call that sent request e.
SiteOf(p, e) ==
    CASE e.request.endpoint = "imagine" -> {"send_prompt"}
      [] e.request.endpoint = "upscale" -> {"upscale"}
      [] OTHER -> {"get_image", "get_upscaled"}

\* C9: a non-200 answer, or a 200 answer with an error status, to submit,
\* await_result or upscale makes the call raise without a retry: it is the
\* last vendor request of the invocation.
C9_VendorErrorRaisesNoRetry ==
    \A p \in Inv : \A i \in 1..Len(vendor_log[p]) :
        FailingAnswer(vendor_log[p][i]) =>
            /\ i = Len(vendor_log[p])
            /\ pc[p] = "Failed"
            /\ failed_at[p] \in SiteOf(p, vendor_log[p][i])
            /\ http_gets[p] = <<>>

\* The poll of an upscale task is answered with an error status after an
\* earlier poll was answered 'processing'.
C9_Witness ==
    \E p \in Inv :
        /\ failed_at[p] = "get_upscaled"
        /\ vendor_log[p][Len(vendor_log[p])].response.status_code = 200
        /\ vendor_log[p][Len(vendor_log[p])].response.status = "failed"
        /\ PollsProcessing(p, vendor_log[p][Len(vendor_log[p])].request.task_id) # {}

\* C10: with every call returning or raising and every task answering
\* 'processing' finitely often, a triggered invocation reaches Done or
\* Failed, and takes no step after that.
C10_RunsToCompletion ==
    \A p \in Inv :
        /\ (pc[p] # "Idle") ~> (pc[p] \in Terminal)
        /\ [](pc[p] \in Terminal => ~ENABLED Step(p))

\* An invocation ends in Done after the vendor answered 'processing' as
\* often as it may.
C10_Witness ==
    \E p \in Inv :
        /\ pc[p] = "Done"
        /\ processing_left[p] = 0
        /\ row[p] # 0

\* The write_sheet call of p returns.
Writes(p) == WriteSheet(p) /\ pc'[p] = "Done"

\* The read_sheet call of p returns.
Reads(p) == ReadSheet(p) /\ pc'[p] = "scan"

\* The timestamp of invocation p is a cell of row r of the stored sheet s.
Stamped(s, r, p) ==
    \E c \in 1..Len(sheets[s][r]) : sheets[s][r][c] = NowStr(now[p])

\* p and q have both read the same grid, selected a row and written.
BothWroteSameRead(p, q) ==
    /\ p # q
    /\ pc[p] = "Done"
    /\ pc[q] = "Done"
    /\ row[p] # 0
    /\ read_values[p] = read_values[q]

\* C11: nothing locks the sheet and no write checks what the sheet holds: a
\* message is delivered, a read returns and a write returns whatever the
\* other invocation is doing.  When two invocations have read the same grid
\* and both have written, they selected the same row and both posted it, and
\* the stored sheet is the grid of one of them alone: the row holds one
\* timestamp cell, and the timestamp of the other invocation is absent.
C11_LostUpdate ==
    /\ \A p \in Inv :
        /\ p \in pending => ENABLED Trigger(p)
        /\ pc[p] = "read_sheet" => ENABLED Reads(p)
        /\ pc[p] = "write_sheet" => ENABLED Writes(p)
    /\ \A p, q \in Inv :
        BothWroteSameRead(p, q) =>
            /\ row[q] = row[p]
            /\ Len(posts[p]) = 1
            /\ Len(posts[q]) = 1
            /\ Len(sheets[WriteSheetName][row[p]])
                  = Len(read_values[p][row[p]]) + 1
            /\ \/ /\ sheets[WriteSheetName] = values[p]
                  /\ now[q] # now[p] => ~Stamped(WriteSheetName, row[p], q)
               \/ /\ sheets[WriteSheetName] = values[q]
                  /\ now[q] # now[p] => ~Stamped(WriteSheetName, row[p], p)

\* Both invocations read the sheet before either wrote it, both posted the
\* same row, and the sheet holds the timestamp of the second writer only.
C11_Witness ==
    \E p, q \in Inv :
        /\ BothWroteSameRead(p, q)
        /\ read_values[p] = sheets_before[p][WriteSheetName]
        /\ now[p] # now[q]
        /\ sheets[WriteSheetName] = values[q]
        /\ Stamped(WriteSheetName, row[p], q)
        /\ ~Stamped(WriteSheetName, row[p], p)
        /\ posts[p][1].description = posts[q][1].description

\* Grid w is grid g but for row r, which is the row of g with the cell ts
\* appended; r = 0 stands for no row.
SameButStamped(w, g, r, ts) ==
    /\ Len(w) = Len(g)
    /\ \A i \in 1..Len(g) : i # r => w[i] = g[i]
    /\ r # 0 =>
        /\ Len(w[r]) = Len(g[r]) + 1
        /\ \A c \in 1..Len(g[r]) : w[r][c] = g[r][c]
        /\ w[r][Len(w[r])] = ts

\* C12: the grid a successful invocation passes to write_sheet is the grid
\* it read, header and rows in the same order, but for the selected row,
\* which keeps its cells in order and has one cell more at its end, the
\* run timestamp.
C12_WrittenGridFrame ==
    \A p \in Inv :
        /\ pc[p] = "Done" => Len(written[p]) = 1
        /\ \A k \in 1..Len(written[p]) :
            /\ pc[p] = "Done"
            /\ now[p] \in Instants
            /\ SameButStamped(written[p][k].values, read_values[p], row[p],
                              NowStr(now[p]))

\* The third row of a grid of three was selected: the header and the second
\* row are written as read, the third row with the timestamp at its end.
C12_Witness ==
    \E p \in Inv :
        /\ pc[p] = "Done"
        /\ row[p] = 3
        /\ Len(read_values[p]) = 3
        /\ written[p][1].values[1] = read_values[p][1]
        /\ written[p][1].values[2] = read_values[p][2]
        /\ written[p][1].values[3] = Append(read_values[p][3], NowStr(now[p]))

\* C13: every sheet write names the sheet 'Prompts', whatever sheet name is
\* configured for reading, and no sheet but 'Prompts' is ever modified: when
\* the sheet read is not 'Prompts', it stays as it was and as it was read.
C13_WritesPromptsOnly ==
    \A p \in Inv :
        /\ \A k \in 1..Len(written[p]) : written[p][k].sheet_name = "Prompts"
        /\ pc[p] # "Idle" =>
            \A s \in SheetNames \ {"Prompts"} : sheets[s] = sheets_before[p][s]
        /\ (sheet_name # "Prompts" /\ Scanned(p)) =>
            sheets[sheet_name] = read_values[p]

\* The sheet read is 'Drafts': a row of it was posted and stamped in memory,
\* 'Drafts' is stored as it was read and 'Prompts' has been overwritten.
C13_Witness ==
    \E p \in Inv :
        /\ sheet_name = "Drafts"
        /\ pc[p] = "Done"
        /\ row[p] # 0
        /\ written[p][1].sheet_name = "Prompts"
        /\ sheets["Drafts"] = read_values[p]
        /\ sheets["Prompts"] # sheets_before[p]["Prompts"]

\* The positions of the commas of s.
Commas(s) == { i \in 1..Len(s) : s[i] = "," }

\* The position of the k-th comma of s; 0 for k = 0 and one past the end of
\* s when s has fewer commas.
KthComma(s, k) ==
    IF k = 0 THEN 0
    ELSE IF k > Cardinality(Commas(s)) THEN Len(s) + 1
    ELSE CHOOSE i \in Commas(s) : Cardinality({ j \in Commas(s) : j <= i }) = k

\* The k-th comma-separated tag of s.
TagAt(s, k) == SubSeq(s, KthComma(s, k - 1) + 1, KthComma(s, k) - 1)

NotSpace(c) == c # " "

\* t from its first to its last character that is not whitespace.
Trimmed(t) ==
    LET ink == { i \in 1..Len(t) : t[i] \notin {" ", "\n"} }
    IN  IF ink = {} THEN <<>>
        ELSE SubSeq(t, Min(ink), CHOOSE i \in ink : \A j \in ink : j <= i)

\* For each of the first k tags of s in order: ' #', then the tag without
\* its spaces, trimmed of whitespace at both ends first if `trim`.
RECURSIVE Hashtags(_, _, _)
Hashtags(s, k, trim) ==
    IF k = 0 THEN <<>>
    ELSE Hashtags(s, k - 1, trim) \o <<" ", "#">>
         \o SelectSeq(IF trim THEN Trimmed(TagAt(s, k)) ELSE TagAt(s, k),
                      NotSpace)

ExpectedCaption(d, t, dt, trim) ==
    d \o Hashtags(t, Cardinality(Commas(t)) + 1, trim) \o dt

\* description 'A', tags 'x, y', default_tags '#z'
IsExample ==
    /\ description = <<"A">>
    /\ tags = <<"x", ",", " ", "y">>
    /\ default_tags = <<"#", "z">>

\* 'A #x #y#z'
ExampleCaption == <<"A", " ", "#", "x", " ", "#", "y", "#", "z">>

\* C14 as stated: the caption built is the description, then for each
\* comma-separated tag in order ' #' and the tag with all its spaces
\* removed, then default_tags; for the example it is 'A #x #y#z'.
C14_Original ==
    caption_pc = "built" =>
        /\ caption = ExpectedCaption(description, tags, default_tags, FALSE)
        /\ IsExample => caption = ExampleCaption

\* C14 amended: the caption built is the description, then for each
\* comma-separated tag in order ' #' and the tag with the whitespace at its
\* two ends removed (spaces and line breaks alike) and then every space
\* removed, a line break inside the tag staying; then default_tags with no
\* separator.  For the example it is 'A #x #y#z'.
C14_CaptionFunction ==
    caption_pc = "built" =>
        /\ caption = ExpectedCaption(description, tags, default_tags, TRUE)
        /\ IsExample => caption = ExampleCaption

C14_Witness ==
    /\ caption_pc = "built"
    /\ IsExample
    /\ caption = ExampleCaption

IsSucceededUpscale(e) == IsUpscale(e) /\ Succeeded(e)

IsFinishedFetch(e) ==
    /\ e.request.endpoint = "fetch"
    /\ e.response.status_code = 200
    /\ e.response.status = "finished"

\* For i = 1..4, the image URL of the 'finished' answer the vendor gave p
\* for the task it created for the upscale request of index i; NoUrl when
\* there is none.
UpscaledResults(p) ==
    LET ups == SelectSeq(vendor_log[p], IsSucceededUpscale)
        fin == SelectSeq(vendor_log[p], IsFinishedFetch)
        TaskOf(i) ==
            LET S == { j \in 1..Len(ups) : ups[j].request.index = i }
            IN  IF S = {} THEN NoTask ELSE ups[Min(S)].response.task_id
        UrlOf(t) ==
            LET S == { j \in 1..Len(fin) : fin[j].request.task_id = t }
            IN  IF S = {} THEN NoUrl ELSE fin[Min(S)].response.image_url
    IN  [i \in 1..4 |-> UrlOf(TaskOf(i))]

\* C15: the i-th path download_images returns is the file holding the
\* download of its i-th input URL, which is the result of the upscale task
\* submitted with index i; the i-th image of the post and the i-th archived
\* object are that file and hold that download, for i = 1..4.
C15_OrderPreserved ==
    \A p \in Inv :
        http_gets[p] # <<>> =>
            LET result == UpscaledResults(p)
            IN  /\ \A i \in 1..Len(http_gets[p]) :
                    i <= 4 /\ http_gets[p][i] = result[i]
                /\ \A i \in 1..Len(image_files[p]) :
                    /\ result[i] # NoUrl
                    /\ ContentOf(files, image_files[p][i]) = result[i]
                /\ \A k \in 1..Len(posts[p]) :
                    /\ Len(posts[p][k].image_files) = 4
                    /\ \A i \in 1..4 :
                        /\ posts[p][k].image_files[i] = image_files[p][i]
                        /\ posts[p][k].contents[i] = result[i]
                /\ \A i \in 1..Len(uploads[p]) :
                    /\ i <= 4
                    /\ uploads[p][i] = BlobKey(TodayStr(now[p]), image_files[p][i])
                    /\ ContentOf(blobs, uploads[p][i]) = result[i]

\* All four images were posted and archived; the second image of the post
\* and the third archived object are the results of the upscale tasks of
\* index 2 and 3, which differ.
C15_Witness ==
    \E p \in Inv :
        /\ Len(posts[p]) = 1
        /\ Len(uploads[p]) = 4
        /\ posts[p][1].contents[2] = Url(<<p, 2>>)
        /\ ContentOf(blobs, uploads[p][3]) = Url(<<p, 3>>)
        /\ UpscaledResults(p)[2] # UpscaledResults(p)[3]

\* Invocation q was delivered when the sheet held the row p selected as p
\* wrote it, stamped: q is a later invocation than p, and p ended in Done.
StartedAfterWrite(p, q) ==
    /\ p # q
    /\ pc[p] = "Done"
    /\ row[p] # 0
    /\ pc[q] # "Idle"
    /\ sheets_before[q][WriteSheetName][row[p]] = values[p][row[p]]
    /\ values[p][row[p]] # read_values[p][row[p]]

\* C16: in a sequence of invocations that do not overlap and read and write
\* 'Prompts', a row that one invocation posted and stamped is not posted by
\* a later invocation, whatever the width of the header: a later invocation
\* either does not select the row or fails at its destructuring, before any
\* vendor request.
C16_NoRepost ==
    \A p, q \in Inv :
        StartedAfterWrite(p, q) =>
            /\ Len(posts[p]) = 1
            /\ Len(read_values[p][row[p]]) = 4
            /\ row[q] = row[p] =>
                /\ posts[q] = <<>>
                /\ vendor_log[q] = <<>>
                /\ pc[q] \in {"destructure", "Failed"}
                /\ Len(read_values[q][1]) # 5
            /\ (Scanned(q) /\ Len(read_values[q][1]) = 5) => row[q] # row[p]

\* The header has not five cells: the later invocation selects the row the
\* earlier one posted and stamped, and fails at its destructuring.
C16_Witness ==
    \E p, q \in Inv :
        /\ StartedAfterWrite(p, q)
        /\ Len(posts[p]) = 1
        /\ row[q] = row[p]
        /\ failed_at[q] = "destructure"
        /\ posts[q] = <<>>

\* C17: when an archive upload fails, the post has been published and no
\* sheet write was made: the row is stamped in memory only, and the sheet is
\* as it was unless another invocation writes it.  An invocation delivered
\* with the sheet as it was reads the same grid and selects the same row,
\* and what it posts is a post of the same row.
C17_PostedButNotMarked ==
    \A p \in Inv :
        failed_at[p] = "archive" =>
            /\ pc[p] = "Failed"
            /\ Len(posts[p]) = 1
            /\ written[p] = <<>>
            /\ values[p][row[p]] # read_values[p][row[p]]
            /\ (\A q \in Inv \ {p} : written[q] = <<>>) =>
                    sheets = sheets_before[p]
            /\ \A q \in Inv \ {p} :
                (Scanned(q) /\ sheets_before[q] = sheets_before[p]) =>
                    /\ read_values[q] = read_values[p]
                    /\ row[q] = row[p]
                    /\ \A k \in 1..Len(posts[q]) :
                        /\ posts[q][k].description = posts[p][1].description
                        /\ posts[q][k].tags = posts[p][1].tags

\* The archive of the first invocation failed after its post; the next
\* invocation read the same grid, selected the same row, posted it a second
\* time and ended in Done.
C17_Witness ==
    \E p, q \in Inv :
        /\ p # q
        /\ failed_at[p] = "archive"
        /\ Len(posts[p]) = 1
        /\ pc[q] = "Done"
        /\ read_values[q] = read_values[p]
        /\ row[q] = row[p]
        /\ Len(posts[q]) = 1
        /\ posts[q][1].description = posts[p][1].description

\* Row r is the first row of grid g after the header whose cell count
\* differs from the header's, and it has not exactly four cells.
BlockedAt(g, r) ==
    /\ r \in 2..Len(g)
    /\ Len(g[r]) # Len(g[1])
    /\ \A j \in 2..(r - 1) : Len(g[j]) = Len(g[1])
    /\ Len(g[r]) # 4

NoEffects(p) ==
    /\ vendor_log[p] = <<>>
    /\ http_gets[p] = <<>>
    /\ image_files[p] = <<>>
    /\ posts[p] = <<>>
    /\ uploads[p] = <<>>
    /\ written[p] = <<>>

\* C18: an invocation that read a grid whose first selectable row has not
\* exactly four cells selects that row and fails at its destructuring, with
\* no vendor request, download, post, archive upload or sheet write.  The
\* sheet stays the grid it read from then on, so that every later invocation
\* reads the same grid, selects the same row and fails the same way: no row
\* after it is selected.
C18_BlockedForever ==
    \A p \in Inv : \A r \in 2..Len(read_values[p]) :
        (Scanned(p) /\ BlockedAt(read_values[p], r)) =>
            /\ row[p] = r
            /\ pc[p] \in {"destructure", "Failed"}
            /\ failed_at[p] \in {"", "destructure"}
            /\ NoEffects(p)
            /\ values[p] = read_values[p]
            /\ sheets[sheet_name] = read_values[p]
            /\ \A q \in Inv \ {p} :
                /\ pc[q] = "scan" => values[q] = read_values[p]
                /\ (Scanned(q) /\ read_values[q] = read_values[p]) =>
                    /\ row[q] = r
                    /\ pc[q] # "Done"
                    /\ NoEffects(q)

\* Two invocations in turn failed at the destructuring of the second row,
\* which has not four cells; the third row, one of four cells that the
\* test accepts, was selected by neither.
C18_Witness ==
    \E p, q \in Inv :
        /\ p # q
        /\ failed_at[p] = "destructure"
        /\ failed_at[q] = "destructure"
        /\ row[p] = 2
        /\ row[q] = 2
        /\ Len(read_values[p]) = 3
        /\ Len(read_values[p][3]) = 4
        /\ Len(read_values[p][3]) # Len(read_values[p][1])
        /\ sheets[sheet_name] = read_values[q]

\* The external effects of p: vendor requests, downloads, logins and posts,
\* archive uploads and sheet writes.
ExternalEffects(p) ==
    <<vendor_log[p], http_gets[p], sessions[p], posts[p], uploads[p],
      written[p], files, blobs, sheets>>

\* No row of grid g after the header passes the test of the loop.
NoneEligible(g) == \A i \in 2..Len(g) : Len(g[i]) = Len(g[1])

\* C19: an invocation that ends without raising has made exactly one sheet
\* write, and an invocation that has made a sheet write has ended: the write
\* is its last external effect.  When the grid read has no data row or no
\* row that passes the test, the invocation makes the write all the same:
\* the grid written is the grid read and no vendor request, download, post
\* or archive upload is made.
C19_OneWriteAtTheEnd ==
    \A p \in Inv :
        /\ pc[p] = "Done" <=> Len(written[p]) = 1
        /\ Len(written[p]) <= 1
        /\ pc[p] = "Done" => ~ENABLED (Step(p) /\ ExternalEffects(p)' # ExternalEffects(p))
        /\ (Scanned(p) /\ NoneEligible(read_values[p])) =>
            /\ row[p] = 0
            /\ pc[p] \in {"write_sheet", "Done", "Failed"}
            /\ failed_at[p] \in {"", "write_sheet"}
            /\ vendor_log[p] = <<>>
            /\ http_gets[p] = <<>>
            /\ posts[p] = <<>>
            /\ sessions[p] = "out"
            /\ uploads[p] = <<>>
            /\ pc[p] = "Done" => written[p][1].values = read_values[p]

\* An invocation ended in Done with one sheet write, of the grid it read, a
\* header and two rows of the header's width, and nothing else.
C19_Witness ==
    \E p \in Inv :
        /\ pc[p] = "Done"
        /\ Len(read_values[p]) = 3
        /\ NoneEligible(read_values[p])
        /\ Len(written[p]) = 1
        /\ written[p][1].values = read_values[p]
        /\ vendor_log[p] = <<>>

=============================================================================
